---- MODULE Spec2Model ----
(***************************************************************************)
(* Trade lifecycle library (library/src) of the validus-assignment         *)
(* repository: the typed trade record, its validation rule, the            *)
(* capability-polymorphic transition primitive, the named lifecycle        *)
(* operations and the process-wide history ledger.                         *)
(*                                                                         *)
(* Rust ownership is modelled explicitly: every lifecycle operation takes  *)
(* the record by value, so the caller's handle `trade` holds the returned  *)
(* record after a success and holds nothing after a failure.               *)
(***************************************************************************)
EXTENDS Naturals, Integers, Sequences, FiniteSets, TLC

VARIABLES
    trade,      \* Option<TradeDetails<S>>: the record the caller holds
    history,    \* HISTORY: the records of the process-wide TradeHistory
    outcome,    \* the last lifecycle call: operation, actor, arguments, result
    mapping,    \* TradeHandlerService::mapping: HashMap<Uuid, ComposedTradeDetails>
    lock,       \* the RwLock around mapping: its writer and its readers
    tasks,      \* the server's handler tasks: request, position, locals, reply
    mutex,      \* the Mutex of HISTORY: the thread holding it, if any
    threads,    \* the threads using HISTORY: operation, position, locals
    completed   \* the appends completed since the ledger was last cleared

library == <<trade, history, outcome>>
server == <<mapping, lock, tasks>>
guarded == <<mutex, threads, completed>>
vars == <<trade, history, outcome, mapping, lock, tasks, mutex, threads, completed>>

-----------------------------------------------------------------------------
(* Bounds of the model *)

\* dates and clock readings are 0..MaxDate
MaxDate == 2
\* the ledger holds at most MaxHistory records
MaxHistory == 2

-----------------------------------------------------------------------------
(* Option<T>: None is the empty sequence, Some(x) a one-element sequence *)

None == << >>
Some(x) == << x >>
is_some(o) == o # None
is_none(o) == o = None
unwrap(o) == o[1]

(* Result<T, E> *)
Ok(v) == [ok |-> TRUE, value |-> v]

-----------------------------------------------------------------------------
(* state.rs *)

Draft == "Draft"
PendingApproval == "PendingApproval"
NeedsReapproval == "NeedsReapproval"
Approved == "Approved"
SentToCounterparty == "SentToCounterparty"
Executed == "Executed"
Cancelled == "Cancelled"

\* the implementors of TradeState, by NAME
TradeState ==
    {Draft, PendingApproval, NeedsReapproval, Approved, SentToCounterparty,
     Executed, Cancelled}

\* the implementors of the marker trait CancellableState
CancellableState ==
    {PendingApproval, NeedsReapproval, Approved, SentToCounterparty}

TradeAction ==
    {"Cancel", "Submit", "Accept", "Update", "Approve", "SendToExecute", "Book"}

\* impl ToString for TradeAction
to_string(action) ==
    CASE action = "Cancel" -> "cancel"
      [] action = "Submit" -> "submit"
      [] action = "Accept" -> "accept"
      [] action = "Update" -> "update"
      [] action = "Approve" -> "approve"
      [] action = "SendToExecute" -> "send to execute"
      [] action = "Book" -> "book"

-----------------------------------------------------------------------------
(* users.rs *)

Requester == "Requester"
Approver == "Approver"

\* User::<P>::sign_in
sign_in(id, P) == [id |-> id, permission |-> P]

-----------------------------------------------------------------------------
(* Inputs of the model *)

RequesterIds == {"Bob", "MaliciousUser"}
ApproverIds == {"Ellie"}
Requesters == {sign_in(id, Requester) : id \in RequesterIds}
Approvers == {sign_in(id, Approver) : id \in ApproverIds}
Users == Requesters \cup Approvers

Counterparties == {"Maggie"}
Directions == {"BUY", "SELL"}
Styles == {"Some Style"}
Currencies == {"USD", "GBP"}
Amounts == {1000}
Underlyings == {<< >>, <<"USD">>, <<"USD", "GBP">>}
Dates == 0..MaxDate
Strikes == {900}

\* every MutTradeDetails the model supplies to new and update
MutTradeDetails ==
    [counterparty : Counterparties,
     direction : Directions,
     style : Styles,
     notional_currency : Currencies,
     notional_amount : Amounts,
     underlying : Underlyings,
     value_date : Dates,
     delivery_date : Dates]

-----------------------------------------------------------------------------
(* error.rs *)

InvalidDetails(issue) ==
    [ok |-> FALSE, error |-> [type |-> "InvalidDetails", issue |-> issue]]

\* the record passed by value is dropped with the error; `dropped` is that
\* record as it was when the call returned
UnauthorisedRequester(requester, action, S, dropped) ==
    [ok |-> FALSE,
     error |-> [type |-> "UnauthorisedRequester", requester |-> requester,
                action |-> action, state |-> S],
     dropped |-> dropped]

-----------------------------------------------------------------------------
(* trade.rs *)

\* Vec::contains
contains(vec, x) == \E i \in 1..Len(vec) : vec[i] = x

\* .map(|c| format!("{},", c)).collect::<String>().trim_end_matches(","):
\* every code followed by a comma, less the trailing comma (a currency code
\* holds no comma and is not empty, so exactly one is trimmed)
RECURSIVE underlying_listing(_)
underlying_listing(vec) ==
    IF vec = << >> THEN ""
    ELSE IF Len(vec) = 1 THEN Head(vec)
    ELSE (Head(vec) \o ",") \o underlying_listing(Tail(vec))

DatesIssue == "Dates must be chronologically ordered"

CurrencyIssue(mut_details) ==
    (("Currency " \o mut_details.notional_currency)
        \o " not listed in the underlying ")
        \o underlying_listing(mut_details.underlying)

\* check_details with the currency looked up before the dates are compared
Mut_check_details_CurrencyFirst(self, mut_details) ==
    IF ~contains(mut_details.underlying, mut_details.notional_currency)
    THEN InvalidDetails(CurrencyIssue(mut_details))
    ELSE IF \/ mut_details.value_date < self.trade_date
            \/ mut_details.delivery_date < self.trade_date
            \/ mut_details.delivery_date < mut_details.value_date
    THEN InvalidDetails(DatesIssue)
    ELSE Ok(<< >>)

\* check_details without the comparison of the delivery and value dates
Mut_check_details(self, mut_details) ==
    IF \/ mut_details.value_date < self.trade_date
       \/ mut_details.delivery_date < self.trade_date
    THEN InvalidDetails(DatesIssue)
    ELSE IF ~contains(mut_details.underlying, mut_details.notional_currency)
    THEN InvalidDetails(CurrencyIssue(mut_details))
    ELSE Ok(<< >>)

\* TradeDetails::check_details
check_details(self, mut_details) ==
    IF \/ mut_details.value_date < self.trade_date
       \/ mut_details.delivery_date < self.trade_date
       \/ mut_details.delivery_date < mut_details.value_date
    THEN InvalidDetails(DatesIssue)
    ELSE IF ~contains(mut_details.underlying, mut_details.notional_currency)
    THEN InvalidDetails(CurrencyIssue(mut_details))
    ELSE Ok(<< >>)

\* new without the call of check_details
Mut_TradeDetails_new(user, counterparty, direction, style, currency, amount, underlying, value_date, delivery_date, now) ==
    Ok([trading_entity |-> user,
        mutable_details |->
            [counterparty |-> counterparty,
             direction |-> direction,
             style |-> style,
             notional_currency |-> currency,
             notional_amount |-> amount,
             underlying |-> underlying,
             value_date |-> value_date,
             delivery_date |-> delivery_date],
        trade_date |-> now,
        strike |-> None,
        state |-> Draft])

\* TradeDetails::new; `now` is the reading of Utc::now()
TradeDetails_new(user, counterparty, direction, style, currency, amount, underlying, value_date, delivery_date, now) ==
    LET details ==
            [trading_entity |-> user,
             mutable_details |->
                [counterparty |-> counterparty,
                 direction |-> direction,
                 style |-> style,
                 notional_currency |-> currency,
                 notional_amount |-> amount,
                 underlying |-> underlying,
                 value_date |-> value_date,
                 delivery_date |-> delivery_date],
             trade_date |-> now,
             strike |-> None,
             state |-> Draft]
        checked == check_details(details, details.mutable_details)
    IN  IF checked.ok THEN Ok(details) ELSE checked

\* TradeDetails::force_transition::<To>
force_transition(self, To) ==
    [trading_entity |-> self.trading_entity,
     mutable_details |-> self.mutable_details,
     trade_date |-> self.trade_date,
     strike |-> self.strike,
     state |-> To]

\* the closures handed to transition
NoMutation == [kind |-> "none"]
ReplaceDetails(new_details) == [kind |-> "replace", new_details |-> new_details]
SetStrike(strike_price) == [kind |-> "strike", strike_price |-> strike_price]
\* the closure |d| { *d = other }: the whole record is assigned
AssignRecord(other) == [kind |-> "assign", other |-> other]

\* the closure of book writing the strike price into the notional amount too
Mut_apply_mutation(mutation, details) ==
    CASE mutation.kind = "none" -> details
      [] mutation.kind = "replace" ->
            [details EXCEPT !.mutable_details = mutation.new_details]
      [] mutation.kind = "strike" ->
            [details EXCEPT !.strike = Some(mutation.strike_price),
                            !.mutable_details.notional_amount =
                                mutation.strike_price]
      [] mutation.kind = "assign" -> mutation.other

\* mutation(&mut details)
apply_mutation(mutation, details) ==
    CASE mutation.kind = "none" -> details
      [] mutation.kind = "replace" ->
            [details EXCEPT !.mutable_details = mutation.new_details]
      [] mutation.kind = "strike" ->
            [details EXCEPT !.strike = Some(mutation.strike_price)]
      [] mutation.kind = "assign" -> mutation.other

-----------------------------------------------------------------------------
(* users.rs: the Transitioner implementations *)

\* the requester's transition without the ownership check
Mut_RequesterTransition_NoCheck(self, details, mutation, action, To) ==
    Ok(force_transition(apply_mutation(mutation, details), To))

\* the requester's transition with the mutation run before the ownership check
Mut_RequesterTransition_MutateFirst(self, details, mutation, action, To) ==
    IF details.trading_entity # self
    THEN UnauthorisedRequester(self.id, to_string(action), details.state,
                               apply_mutation(mutation, details))
    ELSE Ok(force_transition(apply_mutation(mutation, details), To))

\* impl Transitioner for User<Requester>
RequesterTransition(self, details, mutation, action, To) ==
    IF details.trading_entity # self
    THEN UnauthorisedRequester(self.id, to_string(action), details.state, details)
    ELSE Ok(force_transition(apply_mutation(mutation, details), To))

\* the approver's transition with the ownership check of the requester's
Mut_ApproverTransition(self, details, mutation, action, To) ==
    IF details.trading_entity.id # self.id
    THEN UnauthorisedRequester(self.id, to_string(action), details.state, details)
    ELSE Ok(force_transition(apply_mutation(mutation, details), To))

\* impl Transitioner for User<Approver>; TransitionResult is the record itself
ApproverTransition(self, details, mutation, action, To) ==
    Ok(force_transition(apply_mutation(mutation, details), To))

\* U::transition for a generic U: Transitioner
transition(user, details, mutation, action, To) ==
    IF user.permission = Requester
    THEN RequesterTransition(user, details, mutation, action, To)
    ELSE ApproverTransition(user, details, mutation, action, To)

-----------------------------------------------------------------------------
(* trade.rs: the named lifecycle operations *)

\* impl<S: CancellableState> TradeDetails<S>::cancel
cancel(self, user) == transition(user, self, NoMutation, "Cancel", Cancelled)

\* TradeDetails<Draft>::submit
submit(self, requester) ==
    RequesterTransition(requester, self, NoMutation, "Submit", PendingApproval)

\* TradeDetails<PendingApproval>::accept
accept(self, approver) ==
    ApproverTransition(approver, self, NoMutation, "Accept", Approved)

\* update without the validation of the new details
Mut_update(self, approver, new_details) ==
    ApproverTransition(approver, self, ReplaceDetails(new_details),
                       "Update", NeedsReapproval)

\* TradeDetails<PendingApproval>::update
update(self, approver, new_details) ==
    LET checked == check_details(self, new_details)
    IN  IF ~checked.ok
        THEN [ok |-> FALSE, error |-> checked.error, dropped |-> self]
        ELSE ApproverTransition(approver, self, ReplaceDetails(new_details),
                                "Update", NeedsReapproval)

\* TradeDetails<NeedsReapproval>::approve
approve(self, requester) ==
    RequesterTransition(requester, self, NoMutation, "Approve", Approved)

\* TradeDetails<Approved>::send_to_execute
send_to_execute(self, approver) ==
    ApproverTransition(approver, self, NoMutation, "SendToExecute",
                       SentToCounterparty)

\* TradeDetails<SentToCounterparty>::book
book(self, strike_price, user) ==
    transition(user, self, SetStrike(strike_price), "Book", Executed)

-----------------------------------------------------------------------------
(* history.rs *)

\* TradeDetailsDiff::new (trade.rs)
changed(a, b) == IF a # b THEN Some(<<a, b>>) ELSE None

\* the diff that is absent whenever the fields are equal, strike or no strike
Mut_TradeDetailsDiff_new(from_details, to_details) ==
    LET from == from_details.mutable_details
        to == to_details.mutable_details
    IN  IF from = to
        THEN None
        ELSE Some(
            [counterparty |-> changed(from.counterparty, to.counterparty),
             direction |-> changed(from.direction, to.direction),
             style |-> changed(from.style, to.style),
             notional_currency |->
                changed(from.notional_currency, to.notional_currency),
             notional_amount |->
                changed(from.notional_amount, to.notional_amount),
             underlying |-> changed(from.underlying, to.underlying),
             value_date |-> changed(from.value_date, to.value_date),
             delivery_date |-> changed(from.delivery_date, to.delivery_date),
             strike |-> to_details.strike])

TradeDetailsDiff_new(from_details, to_details) ==
    LET from == from_details.mutable_details
        to == to_details.mutable_details
    IN  IF from = to /\ is_none(to_details.strike)
        THEN None
        ELSE Some(
            [counterparty |-> changed(from.counterparty, to.counterparty),
             direction |-> changed(from.direction, to.direction),
             style |-> changed(from.style, to.style),
             notional_currency |->
                changed(from.notional_currency, to.notional_currency),
             notional_amount |->
                changed(from.notional_amount, to.notional_amount),
             underlying |-> changed(from.underlying, to.underlying),
             value_date |-> changed(from.value_date, to.value_date),
             delivery_date |-> changed(from.delivery_date, to.delivery_date),
             strike |-> to_details.strike])

\* HistoricalRecord::new::<From, To>; `now` is the reading of Utc::now()
HistoricalRecord_new(action, id, from, to, now) ==
    [timestamp |-> now,
     action |-> action,
     user_id |-> id,
     state_before |-> from.state,
     state_after |-> to.state,
     difference |-> TradeDetailsDiff_new(from, to)]

\* TradeHistory::new
TradeHistory_new == << >>

\* add_record putting the record first
Mut_add_record(records, record) == <<record>> \o records

\* TradeHistory::add_record
add_record(records, record) == Append(records, record)

\* clear removing the oldest record only
Mut_clear(records) == IF records = << >> THEN << >> ELSE Tail(records)

\* TradeHistory::clear
clear(records) == << >>

\* TradeHistory::total_record_count / total_historical_record_count
total_record_count(records) == Len(records)

\* TradeHistory::get_record / get_historical_record
get_record(records, step) ==
    IF step >= Len(records) THEN None ELSE Some(records[step + 1])

-----------------------------------------------------------------------------
(* error.rs and trade.rs: conversions to tonic::Status and to the wire *)

\* tonic::Status: a code and a message
Status(code, message) == [code |-> code, message |-> message]

Err(error) == [ok |-> FALSE, error |-> error]

\* impl Display for UnauthorisedRequester<S>
UnauthorisedRequester_fmt(error) ==
    "Invalid requester user " \o error.requester \o " attempted to "
        \o error.action \o " from state " \o error.state \o "."

\* impl Into<Status> for UnauthorisedRequester<S>
UnauthorisedRequester_into(error) ==
    Status("Unauthenticated", UnauthorisedRequester_fmt(error))

\* impl Into<Status> for InvalidDetails
InvalidDetails_into(error) == Status("InvalidArgument", error.issue \o ".")

\* impl TryFrom<i32> for Direction
Direction_try_from(value) ==
    IF value = 0 THEN Ok("BUY")
    ELSE IF value = 1 THEN Ok("SELL")
    ELSE Err(Status("InvalidArgument", "Direction must either be BUY or SELL"))

\* impl Into<i32> for &Direction
Direction_into(direction) == IF direction = "BUY" THEN 0 ELSE 1

-----------------------------------------------------------------------------
(* server/src/main.rs: the conversions of the handlers *)

\* u32::try_into::<u16>
u16_try_from(code) == IF code <= 65535 THEN Ok(code) ELSE Err("TryFromIntError")

\* Currency::from_numeric, for the currencies of the model
Currency_from_numeric(code) ==
    IF code = 840 THEN Some("USD")
    ELSE IF code = 826 THEN Some("GBP")
    ELSE IF code = 978 THEN Some("EUR")
    ELSE None

\* Currency::numeric
Currency_numeric(currency) ==
    CASE currency = "USD" -> 840
      [] currency = "GBP" -> 826
      [] currency = "EUR" -> 978

\* the notional currency of a request
currency_from_code(code) ==
    IF u16_try_from(code).ok /\ is_some(Currency_from_numeric(code))
    THEN Ok(unwrap(Currency_from_numeric(code)))
    ELSE Err(Status("InvalidArgument", "Currency doesn't follow ISO standard."))

\* the underlying currencies of a request: the first code that is not a
\* currency fails the whole collection
RECURSIVE underlying_from_codes(_)
underlying_from_codes(codes) ==
    IF codes = << >> THEN Ok(<< >>)
    ELSE IF ~(u16_try_from(Head(codes)).ok
                /\ is_some(Currency_from_numeric(Head(codes))))
    THEN Err(Status("InvalidArgument",
                    "Underlying currency codes don't follow ISO standard."))
    ELSE LET rest == underlying_from_codes(Tail(codes))
         IN  IF rest.ok
             THEN Ok(<<unwrap(Currency_from_numeric(Head(codes)))>> \o rest.value)
             ELSE rest

\* .map(|c| c.numeric() as u32).collect()
RECURSIVE underlying_to_codes(_)
underlying_to_codes(vec) ==
    IF vec = << >> THEN << >>
    ELSE <<Currency_numeric(Head(vec))>> \o underlying_to_codes(Tail(vec))

\* The text of a date is <<day, offset>>: the day at midnight followed by the
\* offset as written, "Z" or "+00:00"; without an offset it is not RFC 3339.
\* str::parse::<DateTime<Utc>>
DateTime_parse(text) ==
    IF text[2] \in {"Z", "+00:00"} THEN Ok(text[1]) ELSE Err("ParseError")

\* DateTime<Utc>::to_rfc3339
to_rfc3339(date) == <<date, "+00:00">>

\* The text of a UUID is <<uuid, form>>: hyphenated, simple (no hyphens), or
\* cut short.
\* Uuid::from_str
Uuid_from_str(text) ==
    IF text[2] \in {"hyphenated", "simple"} THEN Ok(text[1]) ELSE Err("uuid::Error")

\* Uuid::to_string
Uuid_to_string(uuid) == <<uuid, "hyphenated">>

\* TradeState::ID
ID(S) ==
    CASE S = Draft -> 0
      [] S = PendingApproval -> 1
      [] S = NeedsReapproval -> 2
      [] S = Approved -> 3
      [] S = SentToCounterparty -> 4
      [] S = Executed -> 5
      [] S = Cancelled -> 6

\* Option::unwrap_or
unwrap_or(option, default) == IF is_some(option) THEN unwrap(option) ELSE default

\* convert_trade_details_to_response, the proto::TradeDetails of the response
response_details(details) ==
    [trading_entity |-> details.trading_entity.id,
     subdetails |->
        [counterparty |-> details.mutable_details.counterparty,
         direction |-> Direction_into(details.mutable_details.direction),
         style |-> details.mutable_details.style,
         currency_code |->
            Currency_numeric(details.mutable_details.notional_currency),
         currency_amount |-> details.mutable_details.notional_amount,
         underlying_currency_codes |->
            underlying_to_codes(details.mutable_details.underlying),
         value_date |-> to_rfc3339(details.mutable_details.value_date),
         delivery_date |-> to_rfc3339(details.mutable_details.delivery_date)],
     trade_date |-> to_rfc3339(details.trade_date),
     strike |-> unwrap_or(details.strike, 0)]

\* the response that reports every record as a draft
Mut_convert_trade_details_to_response(details) ==
    Ok([details |-> Some(response_details(details)), status |-> ID(Draft)])

\* convert_trade_details_to_response
convert_trade_details_to_response(details) ==
    Ok([details |-> Some(response_details(details)), status |-> ID(details.state)])

\* ComposedTradeDetails::default
ComposedTradeDetails_default ==
    [pending_approval |-> None, needs_reapproval |-> None, approved |-> None,
     sent_to_counterparty |-> None, executed |-> None, cancelled |-> None]

\* status, "Preparing the response": the first slot that holds a record
status_response(composed) ==
    IF is_some(composed.pending_approval)
    THEN convert_trade_details_to_response(unwrap(composed.pending_approval))
    ELSE IF is_some(composed.needs_reapproval)
    THEN convert_trade_details_to_response(unwrap(composed.needs_reapproval))
    ELSE IF is_some(composed.approved)
    THEN convert_trade_details_to_response(unwrap(composed.approved))
    ELSE IF is_some(composed.sent_to_counterparty)
    THEN convert_trade_details_to_response(unwrap(composed.sent_to_counterparty))
    ELSE IF is_some(composed.executed)
    THEN convert_trade_details_to_response(unwrap(composed.executed))
    ELSE IF is_some(composed.cancelled)
    THEN convert_trade_details_to_response(unwrap(composed.cancelled))
    ELSE Err(Status("DataLoss", "Server Error."))

\* status, "Sanitisation of inbound request": the Uuid asked for
status_sanitise(input) ==
    IF is_none(input.uuid)
    THEN Err(Status("InvalidArgument", "UUID not specified"))
    ELSE IF ~Uuid_from_str(unwrap(input.uuid)).ok
    THEN Err(Status("InvalidArgument", "Invalid UUID, uuid::Error."))
    ELSE Ok(Uuid_from_str(unwrap(input.uuid)).value)

\* submit, from "Sanitisation of the inbound request" to "Preparing the draft
\* trade for submission": the record to store; `now` is the reading of
\* Utc::now() in TradeDetails::new
submit_prepare(input, now) ==
    IF is_none(input.info)
    THEN Err(Status("InvalidArgument", "Username not specified"))
    ELSE IF is_none(input.details)
    THEN Err(Status("InvalidArgument", "Details not specified"))
    ELSE
    LET requester == sign_in(unwrap(input.info), Requester)
        raw_details == unwrap(input.details)
        direction == Direction_try_from(raw_details.direction)
        currency == currency_from_code(raw_details.currency_code)
        underlying == underlying_from_codes(raw_details.underlying_currency_codes)
        value_date == DateTime_parse(raw_details.value_date)
        delivery_date == DateTime_parse(raw_details.delivery_date)
    IN  IF ~direction.ok THEN direction
        ELSE IF ~currency.ok THEN currency
        ELSE IF ~underlying.ok THEN underlying
        ELSE IF ~value_date.ok
        THEN Err(Status("InvalidArgument",
                        "Value Date doesn't follow the UTC standard."))
        ELSE IF ~delivery_date.ok
        THEN Err(Status("InvalidArgument",
                        "Delivery Date doesn't follow the UTC standard."))
        ELSE
        LET draft == TradeDetails_new(requester, raw_details.counterparty,
                        direction.value, raw_details.style, currency.value,
                        raw_details.currency_amount, underlying.value,
                        value_date.value, delivery_date.value, now)
        IN  IF ~draft.ok THEN Err(InvalidDetails_into(draft.error))
            ELSE
            LET details == submit(draft.value, requester)
            IN  IF ~details.ok
                THEN Err(UnauthorisedRequester_into(details.error))
                ELSE Ok(details.value)

\* HashMap::new
HashMap_new == << >>

\* HashMap::contains_key
contains_key(map, key) == key \in DOMAIN map

\* HashMap::get
get(map, key) == IF key \in DOMAIN map THEN Some(map[key]) ELSE None

\* insert storing a record with no slot populated
Mut_insert(map, key, value) ==
    [k \in DOMAIN map \cup {key} |->
        IF k = key THEN ComposedTradeDetails_default ELSE map[k]]

\* HashMap::insert
insert(map, key, value) ==
    [k \in DOMAIN map \cup {key} |-> IF k = key THEN value ELSE map[k]]

\* tokio::sync::RwLock: one writer or any number of readers
\* queue: the callers waiting for the lock, first come first
RwLock_new == [writer |-> None, readers |-> {}, queue |-> << >>]

\* write() is granted however the lock is held
Mut_write_available(rwlock) == TRUE

\* write() is granted at once when nobody holds the lock or waits for it
write_available(rwlock) ==
    is_none(rwlock.writer) /\ rwlock.readers = {} /\ rwlock.queue = << >>

\* read() is granted at once when no writer holds the lock or waits for it:
\* the lock is fair, a reader does not overtake a caller that waits
read_available(rwlock) == is_none(rwlock.writer) /\ rwlock.queue = << >>

\* a caller that is not granted the lock at once waits at the end of the queue
enqueue(rwlock, t, mode) ==
    [rwlock EXCEPT !.queue = Append(@, [task |-> t, mode |-> mode])]

\* the lock passes to the callers at the head of the queue: one writer once
\* nobody holds the lock, or every reader up to the next writer
RECURSIVE grant(_)
grant(rwlock) ==
    IF rwlock.queue = << >> \/ is_some(rwlock.writer)
    THEN rwlock
    ELSE LET head == Head(rwlock.queue)
         IN  IF head.mode = "read"
             THEN grant([rwlock EXCEPT !.readers = @ \cup {head.task},
                                       !.queue = Tail(@)])
             ELSE IF rwlock.readers = {}
                  THEN [rwlock EXCEPT !.writer = Some(head.task),
                                      !.queue = Tail(@)]
                  ELSE rwlock

\* dropping the write guard
drop_write(rwlock) == grant([rwlock EXCEPT !.writer = None])

\* dropping the read guard of t
drop_read(rwlock, t) == grant([rwlock EXCEPT !.readers = @ \ {t}])

-----------------------------------------------------------------------------
(* The state machine *)

NoCall ==
    [op |-> "none", user |-> None, args |-> None, ok |-> TRUE,
     error |-> None, dropped |-> None]

\* a failed transition handing the record back to the caller
Mut_Returned(op, user, args, r) ==
    /\ trade' = IF r.ok THEN Some(r.value)
                ELSE IF op = "new" THEN None ELSE Some(r.dropped)
    /\ outcome' =
        [op |-> op, user |-> Some(user), args |-> args, ok |-> r.ok,
         error |-> IF r.ok THEN None ELSE Some(r.error),
         dropped |-> IF r.ok \/ op = "new" THEN None ELSE Some(r.dropped)]

\* what a call leaves behind: the caller's handle holds the returned record
\* or nothing, and `outcome` describes the call
Returned(op, user, args, r) ==
    /\ trade' = IF r.ok THEN Some(r.value) ELSE None
    /\ outcome' =
        [op |-> op, user |-> Some(user), args |-> args, ok |-> r.ok,
         error |-> IF r.ok THEN None ELSE Some(r.error),
         dropped |-> IF r.ok \/ op = "new" THEN None ELSE Some(r.dropped)]

\* the handler tasks of the server and the threads that use HISTORY
Tasks == {"h1", "h2", "h3"}
Threads == {"t1", "t2"}

\* a task that has not received its request
Idle ==
    [pc |-> "idle", request |-> None, now |-> None, uuid |-> None,
     details |-> None, reply |-> None]

\* a thread that is not using HISTORY
Parked == [pc |-> "idle", step |-> None, record |-> None, result |-> None]

Init ==
    /\ trade = None
    /\ history = TradeHistory_new
    /\ outcome = NoCall
    /\ mapping = HashMap_new
    /\ lock = RwLock_new
    /\ tasks = [t \in Tasks |-> Idle]
    /\ mutex = None
    /\ threads = [th \in Threads |-> Parked]
    /\ completed = 0

\* TradeDetails::<Draft>::new; the model follows one record from its
\* creation, so new is the first lifecycle call of a behaviour
Create ==
    /\ is_none(trade)
    /\ outcome = NoCall
    /\ \E user \in Requesters, m \in MutTradeDetails, now \in Dates :
        Returned("new", user, Some([details |-> m, now |-> now]),
                 TradeDetails_new(user, m.counterparty, m.direction, m.style,
                                  m.notional_currency, m.notional_amount,
                                  m.underlying, m.value_date, m.delivery_date,
                                  now))
    /\ UNCHANGED <<history, server, guarded>>

Submit ==
    /\ is_some(trade)
    /\ unwrap(trade).state = Draft
    /\ \E requester \in Requesters :
        Returned("submit", requester, None, submit(unwrap(trade), requester))
    /\ UNCHANGED <<history, server, guarded>>

Accept ==
    /\ is_some(trade)
    /\ unwrap(trade).state = PendingApproval
    /\ \E approver \in Approvers :
        Returned("accept", approver, None, accept(unwrap(trade), approver))
    /\ UNCHANGED <<history, server, guarded>>

Update ==
    /\ is_some(trade)
    /\ unwrap(trade).state = PendingApproval
    /\ \E approver \in Approvers, new_details \in MutTradeDetails :
        Returned("update", approver, Some(new_details),
                 update(unwrap(trade), approver, new_details))
    /\ UNCHANGED <<history, server, guarded>>

Approve ==
    /\ is_some(trade)
    /\ unwrap(trade).state = NeedsReapproval
    /\ \E requester \in Requesters :
        Returned("approve", requester, None, approve(unwrap(trade), requester))
    /\ UNCHANGED <<history, server, guarded>>

SendToExecute ==
    /\ is_some(trade)
    /\ unwrap(trade).state = Approved
    /\ \E approver \in Approvers :
        Returned("send_to_execute", approver, None,
                 send_to_execute(unwrap(trade), approver))
    /\ UNCHANGED <<history, server, guarded>>

Book ==
    /\ is_some(trade)
    /\ unwrap(trade).state = SentToCounterparty
    /\ \E user \in Users, strike_price \in Strikes :
        Returned("book", user, Some(strike_price),
                 book(unwrap(trade), strike_price, user))
    /\ UNCHANGED <<history, server, guarded>>

Cancel ==
    /\ is_some(trade)
    /\ unwrap(trade).state \in CancellableState
    /\ \E user \in Users :
        Returned("cancel", user, None, cancel(unwrap(trade), user))
    /\ UNCHANGED <<history, server, guarded>>

\* the action tags handed to a direct call of transition
DirectActions == {"Book", "Cancel", "Approve"}

\* the other records of state From that the caller of a direct transition
\* holds: a valid draft of another requester, taken to From
OtherRecords(From) ==
    {force_transition(
        TradeDetails_new([id |-> "MaliciousUser", permission |-> "Requester"],
                         "Maggie", "SELL", "Some Style", "GBP", 1000,
                         <<"USD", "GBP">>, 2, 2, 0).value, From)}

\* the closures handed to a direct transition: the fields of a record are
\* private to the crate, so a closure outside the crate either leaves the
\* record alone, |_| {}, or assigns a whole record of the same state to it,
\* |d| { *d = other }
DirectMutations(From) ==
    {NoMutation} \cup {AssignRecord(other) : other \in OtherRecords(From)}

\* Transitioner::transition::<From, To> called on the record directly: the
\* trait and both implementations are public, so a caller outside the crate
\* names any target state and any action
DirectTransition ==
    /\ is_some(trade)
    /\ \E user \in Users, action \in DirectActions, To \in TradeState,
          mutation \in DirectMutations(unwrap(trade).state) :
        Returned("transition", user,
                 Some([action |-> action, To |-> To, mutation |-> mutation]),
                 transition(user, unwrap(trade), mutation, action, To))
    /\ UNCHANGED <<history, server, guarded>>

\* the record of tests::adding_records_to_lazy_history
MockDraft ==
    TradeDetails_new(sign_in("Test123", Requester), "TestCounterParty", "BUY",
                     "Some Style", "GBP", 100, <<"GBP", "EUR">>, 1, 2, 0).value

\* The two mock_draft calls of the test read the clock one after the other:
\* their dates are the same point of the model's dates, and as instants they
\* are equal only if the clock did not move between the two readings.
\* TradeDetailsDiff::new on the two drafts when the clock moved
ClockMovedDiff ==
    Some([counterparty |-> None, direction |-> None, style |-> None,
          notional_currency |-> None, notional_amount |-> None,
          underlying |-> None,
          value_date |->
            Some(<<MockDraft.mutable_details.value_date,
                   MockDraft.mutable_details.value_date>>),
          delivery_date |->
            Some(<<MockDraft.mutable_details.delivery_date,
                   MockDraft.mutable_details.delivery_date>>),
          strike |-> MockDraft.strike])

\* HistoricalRecord::new on two mock_draft calls: the difference is absent
\* only if the clock did not move between the two calls
MockRecord(action, user_id, clock_moved) ==
    LET record == HistoricalRecord_new(action, user_id, MockDraft, MockDraft, 0)
    IN  IF clock_moved
        THEN [record EXCEPT !.difference = ClockMovedDiff]
        ELSE record

\* tests::adding_records_to_lazy_history, under the guard of HISTORY: the
\* ledger is cleared and the record of the two drafts is added
AddRecord ==
    /\ \E clock_moved \in BOOLEAN :
        history' = add_record(clear(history),
                              MockRecord("Submit", "Test123", clock_moved))
    /\ UNCHANGED <<trade, outcome, server, guarded>>

\* HISTORY.lock().unwrap().clear()
Clear ==
    /\ history' = clear(history)
    /\ UNCHANGED <<trade, outcome, server, guarded>>

Next ==
    \/ Create
    \/ Submit
    \/ Accept
    \/ Update
    \/ Approve
    \/ SendToExecute
    \/ Book
    \/ Cancel
    \/ DirectTransition
    \/ AddRecord
    \/ Clear

Spec == Init /\ [][Next]_vars

-----------------------------------------------------------------------------
(* The scenario of library/tests/example.rs, for any owning requester, any *)
(* approvers, any valid details and any strike: new, submit by the owner,  *)
(* update, approve by the owner, send_to_execute, book by an approver.     *)

Owner == unwrap(trade).trading_entity

ExNew ==
    /\ Create
    /\ outcome'.ok

ExSubmit ==
    /\ outcome.op = "new"
    /\ Submit
    /\ unwrap(outcome'.user) = Owner

ExUpdate ==
    /\ outcome.op = "submit"
    /\ Update
    /\ outcome'.ok

ExApprove ==
    /\ outcome.op = "update"
    /\ Approve
    /\ unwrap(outcome'.user) = Owner

ExSendToExecute ==
    /\ outcome.op = "approve"
    /\ SendToExecute

ExBook ==
    /\ outcome.op = "send_to_execute"
    /\ Book
    /\ unwrap(outcome'.user) \in Approvers

NextExample ==
    \/ ExNew
    \/ ExSubmit
    \/ ExUpdate
    \/ ExApprove
    \/ ExSendToExecute
    \/ ExBook

SpecExample == Init /\ [][NextExample]_vars

-----------------------------------------------------------------------------
(* The diff of two snapshots: a caller holding a record `from` builds the  *)
(* HistoricalRecord of a transition to a record `to` and adds it to an     *)
(* empty ledger, as tests::adding_records_to_lazy_history does.            *)

DiffDetails ==
    [counterparty : {"Maggie", "TestCounterParty"},
     direction : {"BUY", "SELL"},
     style : {"Some Style", "Forward Contract Currency Exchange."},
     notional_currency : {"USD", "GBP"},
     notional_amount : {1, 1000},
     underlying : {<<"USD", "GBP">>, <<"GBP", "USD">>},
     value_date : {1, 2},
     delivery_date : {2, 3}]

DiffStrikes == {None, Some(900)}

InitDiff ==
    /\ trade \in
        {Some([trading_entity |-> sign_in("Bob", Requester),
               mutable_details |-> m,
               trade_date |-> 0,
               strike |-> None,
               state |-> SentToCounterparty]) : m \in DiffDetails}
    /\ history = TradeHistory_new
    /\ outcome = NoCall
    /\ mapping = HashMap_new
    /\ lock = RwLock_new
    /\ tasks = [t \in Tasks |-> Idle]
    /\ mutex = None
    /\ threads = [th \in Threads |-> Parked]
    /\ completed = 0

DiffRecord ==
    /\ outcome = NoCall
    /\ \E m \in DiffDetails, strike \in DiffStrikes :
        LET to == [trading_entity |-> unwrap(trade).trading_entity,
                   mutable_details |-> m,
                   trade_date |-> unwrap(trade).trade_date,
                   strike |-> strike,
                   state |-> Executed]
        IN  /\ history' = add_record(history,
                    HistoricalRecord_new("Book", "Ellie", unwrap(trade), to, 0))
            /\ outcome' = [NoCall EXCEPT !.op = "add_record", !.args = Some(to)]
    /\ UNCHANGED <<trade, server, guarded>>

NextDiff == DiffRecord

SpecDiff == InitDiff /\ [][NextDiff]_vars

-----------------------------------------------------------------------------
(* The ledger alone: records added and the ledger cleared through the      *)
(* HISTORY guard, as tests::adding_records_to_lazy_history does.           *)

\* count: the total_record_count() read before the call, as the test reads it
LedgerAdd ==
    /\ Len(history) < MaxHistory
    /\ \E action \in TradeAction, id \in RequesterIds \cup ApproverIds,
          clock_moved \in BOOLEAN :
        LET record == MockRecord(action, id, clock_moved)
        IN  /\ history' = add_record(history, record)
            /\ outcome' =
                [ok |-> TRUE, error |-> None, dropped |-> None, user |-> None,
                 op |-> "add_record", args |-> Some(record),
                 count |-> total_record_count(history)]
    /\ UNCHANGED <<trade, server, guarded>>

LedgerClear ==
    /\ history' = clear(history)
    /\ outcome' = [NoCall EXCEPT !.op = "clear"]
    /\ UNCHANGED <<trade, server, guarded>>

NextLedger ==
    \/ LedgerAdd
    \/ LedgerClear

SpecLedger == Init /\ [][NextLedger]_vars

-----------------------------------------------------------------------------
(* The server: each task serves one request, submit or status, and keeps   *)
(* its reply. The local work of a handler is one step; every use of the    *)
(* shared mapping is a step of its own.                                    *)

Uuids == {"u1", "u2"}
UuidTexts == {<<uuid, form>> : uuid \in Uuids, form \in {"hyphenated", "simple", "cut"}}

\* the reading of Utc::now() in TradeDetails::new
ServerClock == {1}

\* proto::MutableTradeDetails of a request that succeeds
BaseDetails ==
    [counterparty |-> "Maggie", direction |-> 0, style |-> "Some Style",
     currency_code |-> 840, currency_amount |-> 1000,
     underlying_currency_codes |-> <<840, 826>>,
     value_date |-> <<1, "Z">>, delivery_date |-> <<2, "+00:00">>]

\* the fields in which a request may depart from BaseDetails
RawDetails ==
    [counterparty : {"Maggie"},
     direction : {0, 1, 2},
     style : {"Some Style"},
     currency_code : {840, 826, 978, 0, 70000},
     currency_amount : {1000},
     underlying_currency_codes : {<<840, 826>>, <<840>>, <<826>>, <<840, 0>>},
     value_date : {<<1, "Z">>, <<1, "+00:00">>, <<0, "Z">>, <<3, "Z">>, <<1, "">>},
     delivery_date : {<<2, "+00:00">>, <<0, "Z">>, <<2, "">>}]

\* proto::TradeSubmitRequest: the requests that depart from the base request
\* (Bob, BaseDetails) in at most one field
SubmitRequests ==
    {[rpc |-> "submit", info |-> info, details |-> Some(BaseDetails)] :
        info \in {None, Some("Bob"), Some("MaliciousUser")}}
    \cup {[rpc |-> "submit", info |-> Some("Bob"), details |-> None]}
    \cup {[rpc |-> "submit", info |-> Some("Bob"), details |-> Some(raw)] :
            raw \in {r \in RawDetails :
                        Cardinality({f \in DOMAIN r : r[f] # BaseDetails[f]}) = 1}}

\* proto::TradeStatusRequest
StatusRequests ==
    {[rpc |-> "status", uuid |-> uuid] :
        uuid \in {None} \cup {Some(text) : text \in UuidTexts}}

Replied(t, reply) ==
    [tasks EXCEPT ![t].pc = "done", ![t].reply = Some(reply)]

\* the callers that waited and now hold the lock go on after their .await
resumed(waiting, rwlock) ==
    [t \in Tasks |->
        IF waiting[t].pc = "write_queued" /\ rwlock.writer = Some(t)
        THEN [waiting[t] EXCEPT !.pc = "contains_key"]
        ELSE IF waiting[t].pc = "read_queued" /\ t \in rwlock.readers
        THEN [waiting[t] EXCEPT !.pc = "get"]
        ELSE waiting[t]]

\* submit, lines 123-191: sanitisation, the draft, its submission, the Uuid
SubmitReceive(t) ==
    /\ tasks[t].pc = "idle"
    /\ \E input \in SubmitRequests, now \in ServerClock, uuid \in Uuids :
        LET details == submit_prepare(input, now)
            received == [tasks EXCEPT ![t].request = Some(input),
                                      ![t].now = Some(now)]
        IN  tasks' =
                IF details.ok
                THEN [received EXCEPT ![t].pc = "write",
                                      ![t].details = Some(details.value),
                                      ![t].uuid = Some(uuid)]
                ELSE [received EXCEPT ![t].pc = "done",
                                      ![t].reply = Some(details)]
    /\ UNCHANGED <<mapping, lock, library, guarded>>

\* self.mapping.write().await
AcquireWrite(t) ==
    /\ tasks[t].pc = "write"
    /\ IF write_available(lock)
       THEN /\ lock' = [lock EXCEPT !.writer = Some(t)]
            /\ tasks' = [tasks EXCEPT ![t].pc = "contains_key"]
       ELSE /\ lock' = enqueue(lock, t, "write")
            /\ tasks' = [tasks EXCEPT ![t].pc = "write_queued"]
    /\ UNCHANGED <<mapping, library, guarded>>

\* map.contains_key(&uuid); the early return drops the guard
ContainsKey(t) ==
    /\ tasks[t].pc = "contains_key"
    /\ IF contains_key(mapping, unwrap(tasks[t].uuid))
       THEN /\ lock' = drop_write(lock)
            /\ tasks' = resumed(Replied(t, Err(Status("AlreadyExists",
                                    "Trade has already been submitted."))),
                                drop_write(lock))
       ELSE /\ tasks' = [tasks EXCEPT ![t].pc = "insert"]
            /\ UNCHANGED lock
    /\ UNCHANGED <<mapping, library, guarded>>

\* (*map).insert(uuid, composed); the end of the scope drops the guard
Insert(t) ==
    /\ tasks[t].pc = "insert"
    /\ mapping' = insert(mapping, unwrap(tasks[t].uuid),
                    [ComposedTradeDetails_default
                        EXCEPT !.pending_approval = tasks[t].details])
    /\ lock' = drop_write(lock)
    /\ tasks' = resumed([tasks EXCEPT ![t].pc = "respond"], drop_write(lock))
    /\ UNCHANGED <<library, guarded>>

\* submit, "Sending the response"
Respond(t) ==
    /\ tasks[t].pc = "respond"
    /\ tasks' = Replied(t, Ok([uuid |-> Some(Uuid_to_string(unwrap(tasks[t].uuid)))]))
    /\ UNCHANGED <<mapping, lock, library, guarded>>

\* status, "Sanitisation of inbound request"
StatusReceive(t) ==
    /\ tasks[t].pc = "idle"
    /\ \E input \in StatusRequests :
        LET uuid == status_sanitise(input)
            received == [tasks EXCEPT ![t].request = Some(input)]
        IN  tasks' =
                IF uuid.ok
                THEN [received EXCEPT ![t].pc = "read",
                                      ![t].uuid = Some(uuid.value)]
                ELSE [received EXCEPT ![t].pc = "done", ![t].reply = Some(uuid)]
    /\ UNCHANGED <<mapping, lock, library, guarded>>

\* self.mapping.read().await
AcquireRead(t) ==
    /\ tasks[t].pc = "read"
    /\ IF read_available(lock)
       THEN /\ lock' = [lock EXCEPT !.readers = @ \cup {t}]
            /\ tasks' = [tasks EXCEPT ![t].pc = "get"]
       ELSE /\ lock' = enqueue(lock, t, "read")
            /\ tasks' = [tasks EXCEPT ![t].pc = "read_queued"]
    /\ UNCHANGED <<mapping, library, guarded>>

\* status, from map.get(&uuid) to the response; returning drops the guard
Get(t) ==
    /\ tasks[t].pc = "get"
    /\ LET composed == get(mapping, unwrap(tasks[t].uuid))
       IN  tasks' = resumed(Replied(t,
                IF is_none(composed)
                THEN Err(Status("NotFound", "Trade not found."))
                ELSE status_response(unwrap(composed))), drop_read(lock, t))
    /\ lock' = drop_read(lock, t)
    /\ UNCHANGED <<mapping, library, guarded>>

NextServer ==
    \/ \E t \in Tasks : SubmitReceive(t)
    \/ \E t \in Tasks : AcquireWrite(t)
    \/ \E t \in Tasks : ContainsKey(t)
    \/ \E t \in Tasks : Insert(t)
    \/ \E t \in Tasks : Respond(t)
    \/ \E t \in Tasks : StatusReceive(t)
    \/ \E t \in Tasks : AcquireRead(t)
    \/ \E t \in Tasks : Get(t)

SpecServer == Init /\ [][NextServer]_vars

-----------------------------------------------------------------------------
(* The threads that use HISTORY: each operation is HISTORY.lock().unwrap() *)
(* followed by one method of TradeHistory, and the guard is dropped at the *)
(* end of the statement. Vec::push reads the length, then writes the       *)
(* element and the new length.                                             *)

\* Mutex::lock returns however the mutex is held
Mut_mutex_available(m) == TRUE

\* Mutex::lock returns when no thread holds the mutex
mutex_available(m) == is_none(m)

LedgerOperations == {"add_record", "clear", "total_record_count", "get_record"}

\* HISTORY.lock().unwrap(), for the operation that follows
Lock(th) ==
    /\ threads[th].pc = "idle"
    /\ mutex_available(mutex)
    /\ mutex' = Some(th)
    /\ \E op \in LedgerOperations, step \in 0..MaxHistory,
          clock_moved \in BOOLEAN :
        /\ op = "add_record" => Len(history) < MaxHistory /\ step = 0
        /\ op \in {"clear", "total_record_count"} => step = 0
        /\ op # "add_record" => ~clock_moved
        /\ threads' =
            [threads EXCEPT ![th] =
                [pc |-> op,
                 step |-> IF op = "get_record" THEN Some(step) ELSE None,
                 record |-> IF op = "add_record"
                            THEN Some(MockRecord("Submit", th, clock_moved))
                            ELSE None,
                 result |-> None]]
    /\ UNCHANGED <<history, completed, trade, outcome, server>>

\* Vec::push, the length read
PushReserve(th) ==
    /\ threads[th].pc = "add_record"
    /\ threads' = [threads EXCEPT ![th].pc = "push",
                                  ![th].step = Some(Len(history))]
    /\ UNCHANGED <<history, completed, mutex, trade, outcome, server>>

\* Vec::push, the element and the new length written
PushWrite(th) ==
    /\ threads[th].pc = "push"
    /\ LET len == unwrap(threads[th].step)
       IN  history' =
            SubSeq(history, 1, IF len < Len(history) THEN len ELSE Len(history))
                \o threads[th].record
    /\ completed' = completed + 1
    /\ threads' = [threads EXCEPT ![th].pc = "unlock"]
    /\ UNCHANGED <<mutex, trade, outcome, server>>

\* TradeHistory::clear
GuardedClear(th) ==
    /\ threads[th].pc = "clear"
    /\ history' = clear(history)
    /\ completed' = 0
    /\ threads' = [threads EXCEPT ![th].pc = "unlock"]
    /\ UNCHANGED <<mutex, trade, outcome, server>>

\* total_historical_record_count
GuardedCount(th) ==
    /\ threads[th].pc = "total_record_count"
    /\ threads' = [threads EXCEPT ![th].pc = "unlock",
                                  ![th].result = Some(total_record_count(history))]
    /\ UNCHANGED <<history, completed, mutex, trade, outcome, server>>

\* get_historical_record
GuardedGet(th) ==
    /\ threads[th].pc = "get_record"
    /\ threads' = [threads EXCEPT ![th].pc = "unlock",
                                  ![th].result =
                                    Some(get_record(history, unwrap(threads[th].step)))]
    /\ UNCHANGED <<history, completed, mutex, trade, outcome, server>>

\* the MutexGuard dropped
Unlock(th) ==
    /\ threads[th].pc = "unlock"
    /\ mutex' = None
    /\ threads' = [threads EXCEPT ![th] = Parked]
    /\ UNCHANGED <<history, completed, trade, outcome, server>>

NextGuarded ==
    \/ \E th \in Threads : Lock(th)
    \/ \E th \in Threads : PushReserve(th)
    \/ \E th \in Threads : PushWrite(th)
    \/ \E th \in Threads : GuardedClear(th)
    \/ \E th \in Threads : GuardedCount(th)
    \/ \E th \in Threads : GuardedGet(th)
    \/ \E th \in Threads : Unlock(th)

SpecGuarded == Init /\ [][NextGuarded]_vars

-----------------------------------------------------------------------------
(* Vocabulary of the properties *)

Count == total_record_count(history)
Held == unwrap(trade)
Actor == unwrap(outcome.user)
Error == unwrap(outcome.error)
Dropped == unwrap(outcome.dropped)
Args == unwrap(outcome.args)

\* the step is a call of the lifecycle operation op: every such call, and
\* no ledger operation, writes `outcome`
Called(op) == outcome' # outcome /\ outcome'.op = op

\* the step is a call of one of the seven lifecycle transitions
\* a call of one of the seven operations of the transition table
OperationStep ==
    \E op \in {"submit", "accept", "update", "approve", "send_to_execute",
               "book", "cancel"} : Called(op)

TransitionStep ==
    \E op \in {"submit", "accept", "update", "approve", "send_to_execute",
               "book", "cancel", "transition"} : Called(op)

\* the four validation rules, relative to a trade date
RulesHold(trade_date, m) ==
    /\ m.value_date >= trade_date
    /\ m.delivery_date >= trade_date
    /\ m.delivery_date >= m.value_date
    /\ \E i \in DOMAIN m.underlying : m.underlying[i] = m.notional_currency

\* the transition table: <<from, operation, to, capability of the actor>>
TransitionTable ==
    {<<"Draft", "submit", "PendingApproval", "Requester">>,
     <<"PendingApproval", "accept", "Approved", "Approver">>,
     <<"PendingApproval", "update", "NeedsReapproval", "Approver">>,
     <<"NeedsReapproval", "approve", "Approved", "Requester">>,
     <<"Approved", "send_to_execute", "SentToCounterparty", "Approver">>,
     <<"SentToCounterparty", "book", "Executed", "Requester">>,
     <<"SentToCounterparty", "book", "Executed", "Approver">>}
    \cup
    {<<from, "cancel", "Cancelled", capability>> :
        from \in {"PendingApproval", "NeedsReapproval", "Approved",
                  "SentToCounterparty"},
        capability \in {"Requester", "Approver"}}

\* the number of successful transitions behind each step of the scenario
TransitionsDone ==
    CASE outcome.op = "none" -> 0
      [] outcome.op = "new" -> 0
      [] outcome.op = "submit" -> 1
      [] outcome.op = "update" -> 2
      [] outcome.op = "approve" -> 3
      [] outcome.op = "send_to_execute" -> 4
      [] outcome.op = "book" -> 5

-----------------------------------------------------------------------------
(* C1: every successful lifecycle transition, by a Requester or an         *)
(* Approver, appends exactly one record to the ledger: the count after the *)
(* call is the count before it plus one.                                   *)
C1_TransitionAppendsOne ==
    [][(TransitionStep /\ outcome'.ok)
        => total_record_count(history') = total_record_count(history) + 1]_vars

(* C2: after N successful transitions against an empty ledger the count is *)
(* N, get(i) is present for every i < N and absent for every i >= N.       *)
C2_CountIsTransitions ==
    /\ Count = TransitionsDone
    /\ \A i \in 0..6 :
        is_some(get_record(history, i)) <=> i < TransitionsDone

(* C3: submit on a Draft by the requester that created it succeeds,        *)
(* returns the record in PendingApproval and appends exactly one ledger    *)
(* entry, whose action is Submit and whose diff is absent.                 *)
C3_OwnerSubmit ==
    [][(Called("submit") /\ unwrap(outcome'.user) = Held.trading_entity)
        => /\ outcome'.ok
           /\ unwrap(trade').state = "PendingApproval"
           /\ Len(history') = Len(history) + 1
           /\ history'[Len(history')].action = "Submit"
           /\ is_none(history'[Len(history')].difference)]_vars

(* C4: submit on a Draft by a requester other than the trading entity      *)
(* fails with UnauthorisedRequester and leaves the ledger as it was.       *)
C4_ForeignSubmitFails ==
    [][(Called("submit") /\ unwrap(outcome'.user) # Held.trading_entity)
        => /\ ~outcome'.ok
           /\ unwrap(outcome'.error).type = "UnauthorisedRequester"
           /\ is_none(trade')
           /\ history' = history]_vars

C4_Witness ==
    /\ outcome.op = "submit"
    /\ ~outcome.ok
    /\ Error.type = "UnauthorisedRequester"
    /\ Actor # Dropped.trading_entity
    /\ Count > 0

(* C5: a submit, approve, cancel or book by a requester other than the     *)
(* trading entity fails with UnauthorisedRequester carrying the acting     *)
(* requester's id, the action name and the source state name; the record   *)
(* is dropped as it was (no mutation, no strike, same state tag) and the   *)
(* ledger is left as it was.                                               *)
C5_ForeignRequesterRejected ==
    [][(/\ \E op \in {"submit", "approve", "cancel", "book"} : Called(op)
        /\ unwrap(outcome'.user).permission = "Requester"
        /\ unwrap(outcome'.user) # Held.trading_entity)
        => /\ ~outcome'.ok
           /\ unwrap(outcome'.error) =
                [type |-> "UnauthorisedRequester",
                 requester |-> unwrap(outcome'.user).id,
                 action |-> outcome'.op,
                 state |-> Held.state]
           /\ unwrap(outcome'.dropped) = Held
           /\ is_none(trade')
           /\ history' = history]_vars

C5_Witness ==
    /\ outcome.op = "book"
    /\ ~outcome.ok
    /\ Error.type = "UnauthorisedRequester"
    /\ Error.state = "SentToCounterparty"
    /\ Error.requester # Dropped.trading_entity.id
    /\ is_none(Dropped.strike)
    /\ Dropped.state = "SentToCounterparty"
    /\ Count > 0

(* C6 as stated: an update whose new fields violate a rule fails with      *)
(* InvalidDetails, appends nothing, changes nothing, and the caller still  *)
(* has the pre-transition record.                                          *)
C6_CallerRetainsRecord ==
    [][(Called("update") /\ ~RulesHold(Held.trade_date, unwrap(outcome'.args)))
        => /\ ~outcome'.ok
           /\ unwrap(outcome'.error).type = "InvalidDetails"
           /\ history' = history
           /\ trade' = trade]_vars

(* C6 amended: an update whose new fields violate a rule fails with        *)
(* InvalidDetails before any transition or ledger effect: the ledger is    *)
(* left as it was and the record is dropped unchanged (same fields, strike *)
(* and state); update takes the record by value, so the caller holds no    *)
(* record after the call.                                                  *)
C6_InvalidUpdateRejected ==
    [][(Called("update") /\ ~RulesHold(Held.trade_date, unwrap(outcome'.args)))
        => /\ ~outcome'.ok
           /\ unwrap(outcome'.error).type = "InvalidDetails"
           /\ history' = history
           /\ unwrap(outcome'.dropped) = Held
           /\ is_none(trade')]_vars

C6_Witness ==
    /\ outcome.op = "update"
    /\ ~outcome.ok
    /\ Error.type = "InvalidDetails"
    /\ ~RulesHold(Dropped.trade_date, Args)
    /\ Dropped.state = "PendingApproval"
    /\ is_none(trade)
    /\ Count > 0

(* C7: new succeeds exactly when the four validation rules hold and fails  *)
(* with InvalidDetails otherwise; on success the record is a Draft with no *)
(* strike, the creating requester as trading entity and the supplied       *)
(* mutable fields.                                                         *)
C7_CreateValidates ==
    outcome.op = "new" =>
        /\ outcome.ok <=> RulesHold(Args.now, Args.details)
        /\ ~outcome.ok =>
            /\ Error.type = "InvalidDetails"
            /\ is_none(trade)
        /\ outcome.ok =>
            /\ is_some(trade)
            /\ Held.state = "Draft"
            /\ is_none(Held.strike)
            /\ Held.trading_entity = Actor
            /\ Held.mutable_details = Args.details
            /\ Held.trade_date = Args.now

C7_Witness ==
    /\ outcome.op = "new"
    /\ outcome.ok
    /\ Held.state = "Draft"
    /\ Held.mutable_details.value_date = Held.trade_date
    /\ Held.mutable_details.delivery_date > Held.mutable_details.value_date
    /\ Held.mutable_details.underlying = <<"USD", "GBP">>
    /\ Held.mutable_details.notional_currency = "GBP"

(* C8: a record changes state only along the transition table, by an actor *)
(* of the capability the table lists; nothing else changes a state tag.    *)
C8_OnlyTableTransitions ==
    [][(is_some(trade) /\ is_some(trade') /\ trade' # trade)
        => <<Held.state, outcome'.op, unwrap(trade').state,
             unwrap(outcome'.user).permission>> \in TransitionTable]_vars

(* C9: cancel is available exactly from PendingApproval, NeedsReapproval,  *)
(* Approved and SentToCounterparty, and the record a cancel returns is in  *)
(* Cancelled; a record in Draft, Executed or Cancelled is never cancelled: *)
(* no call on such a record returns it in Cancelled.                       *)
C9_CancelAvailability ==
    /\ [](ENABLED Cancel
            <=> /\ is_some(trade)
                /\ Held.state \in {"PendingApproval", "NeedsReapproval",
                                   "Approved", "SentToCounterparty"})
    /\ [][Called("cancel")
            => /\ Held.state \notin {"Draft", "Executed", "Cancelled"}
               /\ outcome'.ok => unwrap(trade').state = "Cancelled"]_vars
    /\ [][(/\ TransitionStep
           /\ outcome'.ok
           /\ Held.state \in {"Draft", "Executed", "Cancelled"})
            => unwrap(trade').state # "Cancelled"]_vars

(* C10: for an owning requester R and any approver A, the sequence new,    *)
(* submit(R), update(A, valid F), approve(R), send_to_execute(A),          *)
(* book(s, A) succeeds at every step, leaves the count of an initially     *)
(* empty ledger at 1, 2, 3 and finally 5, and ends in Executed with strike *)
(* s and mutable fields F.                                                 *)
C10_ExampleScenario ==
    /\ [](/\ outcome.ok
          /\ outcome.op = "submit" => Count = 1
          /\ outcome.op = "update" =>
                Count = 2 /\ Held.mutable_details = Args
          /\ outcome.op = "approve" => Count = 3
          /\ outcome.op = "book" =>
                /\ Count = 5
                /\ Held.state = "Executed"
                /\ Held.strike = Some(Args))
    /\ [][(Called("approve") \/ Called("send_to_execute") \/ Called("book"))
            => unwrap(trade').mutable_details = Held.mutable_details]_vars

-----------------------------------------------------------------------------
\* the eight mutable fields
MutableFields ==
    {"counterparty", "direction", "style", "notional_currency",
     "notional_amount", "underlying", "value_date", "delivery_date"}

\* the (before, after) pair a diff holds for a field, absent when equal
ExpectedPair(before, after) ==
    IF before = after THEN None ELSE Some(<<before, after>>)

(* C11: after a successful update by an approver the most recent ledger    *)
(* entry has action Update and the approver's id, and its diff holds the   *)
(* (before, after) pair of exactly the fields the update changed.          *)
C11_UpdateEntry ==
    [][(Called("update") /\ outcome'.ok
            /\ unwrap(trade').mutable_details # Held.mutable_details)
        => /\ Len(history') > 0
           /\ history'[Len(history')].action = "Update"
           /\ history'[Len(history')].user_id = unwrap(outcome'.user).id
           /\ is_some(history'[Len(history')].difference)
           /\ \A f \in MutableFields :
                unwrap(history'[Len(history')].difference)[f] =
                    ExpectedPair(Held.mutable_details[f],
                                 unwrap(trade').mutable_details[f])]_vars

(* C12: a successful book(s) sets the strike of the record to s and the    *)
(* ledger entry it produces carries a diff whose strike is s.              *)
C12_BookEntry ==
    [][(Called("book") /\ outcome'.ok)
        => /\ unwrap(trade').strike = Some(unwrap(outcome'.args))
           /\ Len(history') = Len(history) + 1
           /\ history'[Len(history')].action = "Book"
           /\ is_some(history'[Len(history')].difference)
           /\ unwrap(history'[Len(history')].difference).strike =
                Some(unwrap(outcome'.args))]_vars

(* C15: the trading entity and the trade date of a record never change:    *)
(* every call on a record returns it with the values set at creation.      *)
C15_ProvenanceImmutable ==
    [][(is_some(trade) /\ is_some(trade'))
        => /\ unwrap(trade').trading_entity = Held.trading_entity
           /\ unwrap(trade').trade_date = Held.trade_date]_vars

(* C16: accept, update with valid fields, send_to_execute, book and cancel *)
(* by an approver never fail on authorization: whoever owns the record,    *)
(* the call returns the transitioned record.                               *)
C16_ApproverNeverUnauthorised ==
    [][(/\ \E op \in {"accept", "update", "send_to_execute", "book", "cancel"} :
                Called(op)
        /\ unwrap(outcome'.user).permission = "Approver")
        => /\ outcome'.ok
                \/ /\ outcome'.op = "update"
                   /\ unwrap(outcome'.error).type = "InvalidDetails"
                   /\ ~RulesHold(Held.trade_date, unwrap(outcome'.args))
           /\ outcome'.ok => is_some(trade')]_vars

C16_Witness ==
    /\ outcome.op = "book"
    /\ outcome.ok
    /\ Actor = [id |-> "Ellie", permission |-> "Approver"]
    /\ Held.trading_entity.id = "Bob"
    /\ Held.state = "Executed"

(* C13: the diff of two snapshots is absent if and only if all eight       *)
(* mutable fields are equal and the later strike is unset; otherwise it    *)
(* holds the (before, after) pair of exactly the fields that differ, omits *)
(* every equal field and carries the later strike.                         *)
C13_DiffExact ==
    outcome.op = "add_record" =>
        LET diff == history[1].difference
        IN  /\ is_none(diff) <=>
                /\ \A f \in MutableFields :
                        Held.mutable_details[f] = Args.mutable_details[f]
                /\ Args.strike = << >>
            /\ is_some(diff) =>
                /\ \A f \in MutableFields :
                        unwrap(diff)[f] =
                            ExpectedPair(Held.mutable_details[f],
                                         Args.mutable_details[f])
                /\ unwrap(diff).strike = Args.strike

C13_Witness ==
    /\ outcome.op = "add_record"
    /\ Held.mutable_details = Args.mutable_details
    /\ Args.strike = <<900>>
    /\ history[1].difference # << >>
    /\ unwrap(history[1].difference).notional_amount = << >>

(* C14: the ledger is append-only and ordered: an added record is placed   *)
(* at index count() after the records already there, which keep their      *)
(* index and content; a record equal to one already there is added like    *)
(* any other (no deduplication); and get(index) is absent exactly when     *)
(* index >= count().                                                       *)
C14_AppendOnly ==
    /\ [](\A index \in 0..(MaxHistory + 1) :
            is_none(get_record(history, index))
                <=> index >= total_record_count(history))
    /\ [](outcome.op = "add_record"
            => /\ total_record_count(history) = outcome.count + 1
               /\ get_record(history, outcome.count) = outcome.args)
    /\ [][Called("add_record")
            => /\ outcome'.count = total_record_count(history)
               /\ total_record_count(history') = total_record_count(history) + 1
               /\ get_record(history', total_record_count(history))
                    = outcome'.args
               /\ \A index \in 0..MaxHistory :
                    index < total_record_count(history)
                        => get_record(history', index)
                            = get_record(history, index)]_vars

\* a record equal to the one already in the ledger has been added after it
C14_Witness ==
    /\ outcome.op = "add_record"
    /\ outcome.count = 1
    /\ Len(history) = 2
    /\ history[1] = history[2]
    /\ outcome.args = Some(history[2])

-----------------------------------------------------------------------------
(* Vocabulary of the properties of the server *)

TaskStep(t, from) == tasks[t].pc = from /\ tasks'[t].pc # from

Request(t) == unwrap(tasks[t].request)
Reply(t) == unwrap(tasks[t].reply)
Failed(t) == tasks[t].pc = "done" /\ ~Reply(t).ok
Succeeded(t) == tasks[t].pc = "done" /\ Reply(t).ok

\* the task has inserted its record under the Uuid it generated
Stored(t) ==
    /\ is_some(tasks[t].request)
    /\ Request(t).rpc = "submit"
    /\ tasks[t].pc = "respond" \/ Succeeded(t)

IsoCodes == {840, 826, 978}

\* a request that is not well formed: a part is missing or is not the text
\* of a direction, of a currency, of a date or of a UUID
Malformed(input) ==
    IF input.rpc = "status"
    THEN is_none(input.uuid) \/ unwrap(input.uuid)[2] = "cut"
    ELSE \/ is_none(input.info)
         \/ is_none(input.details)
         \/ LET raw == unwrap(input.details)
            IN  \/ raw.direction \notin {0, 1}
                \/ raw.currency_code \notin IsoCodes
                \/ \E i \in DOMAIN raw.underlying_currency_codes :
                        raw.underlying_currency_codes[i] \notin IsoCodes
                \/ raw.value_date[2] = ""
                \/ raw.delivery_date[2] = ""

\* the fields of a well-formed submit request, as the rules read them
Fields(input) ==
    LET raw == unwrap(input.details)
    IN  [value_date |-> raw.value_date[1],
         delivery_date |-> raw.delivery_date[1],
         underlying |-> raw.underlying_currency_codes,
         notional_currency |-> raw.currency_code]

\* the condition under which a request failed
Condition(t) ==
    IF Malformed(Request(t)) THEN "malformed input"
    ELSE IF Request(t).rpc = "status" THEN "not-found"
    ELSE IF ~RulesHold(unwrap(tasks[t].now), Fields(Request(t)))
    THEN "domain validation failure"
    ELSE "duplicate identifier"

(* C17: two requests that fail under different conditions (malformed       *)
(* input, domain validation failure, authorization failure, not-found,     *)
(* duplicate identifier) are answered with different status codes.         *)
C17_DistinctCodes ==
    \A t1, t2 \in Tasks :
        (Failed(t1) /\ Failed(t2) /\ Condition(t1) # Condition(t2))
            => Reply(t1).error.code # Reply(t2).error.code

(* C18: the existence check and the insert of submit are one critical      *)
(* section: no step changes or removes an entry of the mapping, a submit   *)
(* whose Uuid is already a key fails with AlreadyExists and leaves the     *)
(* mapping as it was, and every Uuid maps to the record of the one submit  *)
(* that stored it.                                                         *)
C18_CheckThenInsertAtomic ==
    /\ [](\A t1, t2 \in Tasks :
            /\ Stored(t1) =>
                /\ contains_key(mapping, unwrap(tasks[t1].uuid))
                /\ mapping[unwrap(tasks[t1].uuid)].pending_approval
                        = tasks[t1].details
            /\ (Stored(t1) /\ Stored(t2) /\ t1 # t2)
                    => tasks[t1].uuid # tasks[t2].uuid)
    /\ [][/\ \A uuid \in DOMAIN mapping :
                contains_key(mapping', uuid) /\ mapping'[uuid] = mapping[uuid]
          /\ \A t \in Tasks :
                (TaskStep(t, "contains_key")
                        /\ contains_key(mapping, unwrap(tasks[t].uuid)))
                    => /\ mapping' = mapping
                       /\ tasks'[t].pc = "done"
                       /\ ~unwrap(tasks'[t].reply).ok
                       /\ unwrap(tasks'[t].reply).error.code = "AlreadyExists"]_vars

C18_Witness ==
    /\ Succeeded("h1")
    /\ Request("h1").rpc = "submit"
    /\ Failed("h2")
    /\ Reply("h2").error.code = "AlreadyExists"
    /\ tasks["h1"].uuid = tasks["h2"].uuid
    /\ tasks["h1"].details # tasks["h2"].details

\* the response tells the state and the snapshot of the record
Tells(response, details) ==
    LET told == unwrap(response.details)
        sub == told.subdetails
        m == details.mutable_details
    IN  /\ response.status = ID(details.state)
        /\ told.trading_entity = details.trading_entity.id
        /\ sub.counterparty = m.counterparty
        /\ Direction_try_from(sub.direction) = Ok(m.direction)
        /\ sub.style = m.style
        /\ Currency_from_numeric(sub.currency_code) = Some(m.notional_currency)
        /\ sub.currency_amount = m.notional_amount
        /\ underlying_from_codes(sub.underlying_currency_codes) = Ok(m.underlying)
        /\ DateTime_parse(sub.value_date) = Ok(m.value_date)
        /\ DateTime_parse(sub.delivery_date) = Ok(m.delivery_date)
        /\ DateTime_parse(told.trade_date) = Ok(details.trade_date)
        /\ is_some(details.strike) => told.strike = unwrap(details.strike)

(* C19: a status request for a Uuid that no successful submit returns is   *)
(* answered NotFound, and a status request for the Uuid of a submit that   *)
(* stored its record is answered with that record's state, fields, trade   *)
(* date and strike, however late it is asked.                              *)
C19_StatusTellsStored ==
    [][\A t \in Tasks :
        TaskStep(t, "get") =>
            LET uuid == tasks[t].uuid
                reply == unwrap(tasks'[t].reply)
            IN  IF \E s \in Tasks : Stored(s) /\ tasks[s].uuid = uuid
                THEN /\ reply.ok
                     /\ \A s \in Tasks :
                            (Stored(s) /\ tasks[s].uuid = uuid)
                                => Tells(reply.value, unwrap(tasks[s].details))
                ELSE /\ ~reply.ok
                     /\ reply.error.code = "NotFound"]_vars

C19_Witness ==
    /\ Succeeded("h1")
    /\ Request("h1").rpc = "submit"
    /\ unwrap(Request("h1").details).direction = 1
    /\ Succeeded("h2")
    /\ Request("h2") = [rpc |-> "status", uuid |-> Some(<<"u2", "simple">>)]
    /\ tasks["h1"].uuid = Some("u2")
    /\ Reply("h2").value.status = 1
    /\ unwrap(Reply("h2").value.details).subdetails.direction = 1

-----------------------------------------------------------------------------
(* Vocabulary of the properties of the guarded ledger *)

ThreadStep(th, from) == threads[th].pc = from /\ threads'[th].pc # from

\* the thread is between the two halves of Vec::push
Pushing(th) == threads[th].pc = "push"

(* C20: the operations on HISTORY are serialized by its mutex: an append   *)
(* adds its record after the records already there in one piece, none is   *)
(* lost, the count read is the number of appends completed since the last  *)
(* clear, and no thread reads the ledger while another is in the middle of *)
(* an append.                                                              *)
C20_LedgerSerialized ==
    /\ [](total_record_count(history) = completed)
    /\ [][\A th \in Threads :
            /\ ThreadStep(th, "push")
                => history' = Append(history, unwrap(threads[th].record))
            /\ ThreadStep(th, "total_record_count")
                => /\ threads'[th].result = Some(completed)
                   /\ \A other \in Threads : ~Pushing(other)
            /\ ThreadStep(th, "get_record")
                => /\ is_some(unwrap(threads'[th].result))
                        <=> unwrap(threads[th].step) < completed
                   /\ \A other \in Threads : ~Pushing(other)]_vars

C20_Witness ==
    /\ threads["t1"].pc = "unlock"
    /\ threads["t1"].step = None
    /\ threads["t1"].record = None
    /\ threads["t1"].result = Some(2)
    /\ completed = 2
    /\ Len(history) = 2
    /\ history[1].user_id = "t2"
    /\ history[2].user_id = "t1"

-----------------------------------------------------------------------------
\* the fields a failed new or update was called with, and the trade date
\* they were checked against
CheckedFields == IF outcome.op = "new" THEN Args.details ELSE Args
CheckedAgainst == IF outcome.op = "new" THEN Args.now ELSE Dropped.trade_date

\* the underlying currencies as the issue lists them
Listed(underlying) ==
    CASE underlying = << >> -> ""
      [] underlying = <<"USD">> -> "USD"
      [] underlying = <<"GBP">> -> "GBP"
      [] underlying = <<"USD", "GBP">> -> "USD,GBP"

(* C21: the date rules are checked before the currency rule and the issue  *)
(* of InvalidDetails tells the first rule violated: the issue is the one   *)
(* about the order of the dates whenever one of the three date rules is    *)
(* violated, whether or not the currency is listed, and the one about the  *)
(* currency only when the dates are in order.                              *)
C21_FirstRuleReported ==
    (outcome.op \in {"new", "update"} /\ ~outcome.ok)
        => /\ Error.type = "InvalidDetails"
           /\ Error.issue =
                IF \/ CheckedFields.value_date < CheckedAgainst
                   \/ CheckedFields.delivery_date < CheckedAgainst
                   \/ CheckedFields.delivery_date < CheckedFields.value_date
                THEN "Dates must be chronologically ordered"
                ELSE "Currency " \o CheckedFields.notional_currency
                        \o " not listed in the underlying "
                        \o Listed(CheckedFields.underlying)

C21_Witness ==
    /\ outcome.op = "update"
    /\ ~outcome.ok
    /\ Error.issue = "Dates must be chronologically ordered"
    /\ Args.delivery_date < Args.value_date
    /\ Args.value_date >= Dropped.trade_date
    /\ Args.delivery_date >= Dropped.trade_date
    /\ Args.notional_currency = "GBP"
    /\ Args.underlying = <<"USD">>

(* C22: the strike is set once, by book: a record holds a strike if and    *)
(* only if it is Executed, the strike of a record just booked is the price *)
(* handed to book, and a strike that is set never changes.                 *)
C22_StrikeSetOnce ==
    /\ [](is_some(trade) => (is_some(Held.strike) <=> Held.state = "Executed"))
    /\ [][(Called("book") /\ outcome'.ok)
            => unwrap(trade').strike = outcome'.args]_vars
    /\ [][(is_some(trade) /\ is_some(Held.strike) /\ is_some(trade'))
            => unwrap(trade').strike = Held.strike]_vars

(* C23: an update with the fields the record already has succeeds, moves   *)
(* the record to NeedsReapproval and appends an entry with action Update   *)
(* and no diff.                                                            *)
C23_UnchangedUpdateEntry ==
    [][(Called("update") /\ unwrap(outcome'.args) = Held.mutable_details)
        => /\ outcome'.ok
           /\ unwrap(trade').state = "NeedsReapproval"
           /\ unwrap(trade').mutable_details = Held.mutable_details
           /\ Len(history') = Len(history) + 1
           /\ history'[Len(history')].action = "Update"
           /\ history'[Len(history')].difference = << >>]_vars

\* the TradeAction of each lifecycle operation
ActionTag(op) ==
    CASE op = "submit" -> "Submit"
      [] op = "accept" -> "Accept"
      [] op = "update" -> "Update"
      [] op = "approve" -> "Approve"
      [] op = "send_to_execute" -> "SendToExecute"
      [] op = "book" -> "Book"
      [] op = "cancel" -> "Cancel"

(* C24: a successful transition appends an entry holding its action tag,   *)
(* the id of the acting user, the name of the state before and the name of *)
(* the state after, and no later transition changes an entry of the        *)
(* ledger.                                                                 *)
C24_EntryTellsTransition ==
    /\ [][(TransitionStep /\ outcome'.ok)
            => /\ Len(history') = Len(history) + 1
               /\ history'[Len(history')].action = ActionTag(outcome'.op)
               /\ history'[Len(history')].user_id = unwrap(outcome'.user).id
               /\ history'[Len(history')].state_before = Held.state
               /\ history'[Len(history')].state_after = unwrap(trade').state]_vars
    /\ [][TransitionStep
            => \A i \in 1..Len(history) :
                    i <= Len(history') /\ history'[i] = history[i]]_vars

\* one of the seven lifecycle transitions
Transition ==
    \/ Submit
    \/ Accept
    \/ Update
    \/ Approve
    \/ SendToExecute
    \/ Book
    \/ Cancel
    \/ DirectTransition

(* C25: a requester's transition that fails with UnauthorisedRequester     *)
(* consumes the record: the error holds the requester's id, the action and *)
(* the state but not the record, the caller holds no record after the      *)
(* call, and no transition can be called on the trade from then on.        *)
C25_FailedAuthorisationConsumes ==
    /\ [][(TransitionStep /\ ~outcome'.ok
                /\ unwrap(outcome'.error).type = "UnauthorisedRequester")
            => /\ unwrap(outcome'.user).permission = "Requester"
               /\ DOMAIN unwrap(outcome'.error)
                    = {"type", "requester", "action", "state"}
               /\ is_none(trade')]_vars
    /\ []((~outcome.ok /\ Error.type = "UnauthorisedRequester")
            => ~ENABLED Transition)

C25_Witness ==
    /\ outcome.op = "approve"
    /\ ~outcome.ok
    /\ Error.type = "UnauthorisedRequester"
    /\ Error.state = "NeedsReapproval"
    /\ Actor # Dropped.trading_entity
    /\ is_none(trade)

(* C26: clear empties the ledger: after it the count is 0 and get_record   *)
(* is absent at every index, and the next record added is at index 0.      *)
C26_ClearEmpties ==
    /\ [](outcome.op = "clear"
            => /\ total_record_count(history) = 0
               /\ \A index \in 0..(MaxHistory + 1) :
                    is_none(get_record(history, index)))
    /\ [][(outcome.op = "clear" /\ Called("add_record"))
            => /\ get_record(history', 0) = outcome'.args
               /\ total_record_count(history') = 1]_vars

C26_Witness ==
    /\ outcome.op = "clear"
    /\ history = << >>
    /\ ENABLED LedgerAdd

(* C27: an operation of the table changes the fields the table lists and   *)
(* no others: submit, accept, approve, send_to_execute and cancel leave    *)
(* the eight mutable fields and the strike as they were; update replaces   *)
(* the mutable fields with the new ones and leaves the strike; book sets   *)
(* the strike and leaves the mutable fields.                               *)
C27_FrameOfTransitions ==
    [][(OperationStep /\ outcome'.ok)
        => /\ outcome'.op # "update"
                => \A f \in MutableFields :
                        unwrap(trade').mutable_details[f] = Held.mutable_details[f]
           /\ outcome'.op = "update"
                => \A f \in MutableFields :
                        unwrap(trade').mutable_details[f] = unwrap(outcome'.args)[f]
           /\ outcome'.op # "book" => unwrap(trade').strike = Held.strike
           /\ outcome'.op = "book" => unwrap(trade').strike = outcome'.args]_vars

C27_Witness ==
    /\ outcome.op = "book"
    /\ outcome.ok
    /\ Held.strike = <<900>>
    /\ Held.mutable_details.notional_amount = 1000
    /\ Held.mutable_details.direction = "SELL"

\* the slots of an entry of the mapping that hold a record
Populated(composed) == {slot \in DOMAIN composed : is_some(composed[slot])}

(* C28: every entry of the mapping has exactly one of its six slots        *)
(* populated, and status never answers DataLoss.                           *)
C28_OneSlotPopulated ==
    /\ \A uuid \in DOMAIN mapping : Cardinality(Populated(mapping[uuid])) = 1
    /\ \A t \in Tasks : Failed(t) => Reply(t).error.code # "DataLoss"

C28_Witness ==
    /\ DOMAIN mapping = {"u1"}
    /\ Succeeded("h1")
    /\ Succeeded("h2")
    /\ Request("h2").rpc = "status"
    /\ Populated(mapping[unwrap(tasks["h2"].uuid)]) = {"pending_approval"}

(* C29: every record, in every state, satisfies the four validation rules  *)
(* relative to its own trade date.                                         *)
C29_RecordsSatisfyRules ==
    is_some(trade) => RulesHold(Held.trade_date, Held.mutable_details)

C29_Witness ==
    /\ is_some(trade)
    /\ Held.state = "Executed"
    /\ Held.trade_date = 1
    /\ Held.mutable_details.value_date = 1
    /\ Held.mutable_details.delivery_date = 2
    /\ Held.mutable_details.underlying = <<"USD">>

\* the most transitions a record in the state can have behind it
Depth(S) ==
    CASE S = "Draft" -> 0
      [] S = "PendingApproval" -> 1
      [] S = "NeedsReapproval" -> 2
      [] S = "Approved" -> 3
      [] S = "SentToCounterparty" -> 4
      [] S = "Executed" -> 5
      [] S = "Cancelled" -> 5

(* C30: the lifecycle is acyclic and bounded: every successful transition  *)
(* takes the record to a state with more transitions behind it, of which   *)
(* there are at most 5, so no state is entered twice; and no transition    *)
(* applies to an Executed or a Cancelled record.                           *)
C30_LifecycleBounded ==
    /\ [][(is_some(trade) /\ is_some(trade') /\ trade' # trade)
            => /\ Depth(unwrap(trade').state) > Depth(Held.state)
               /\ Depth(unwrap(trade').state) <= 5]_vars
    /\ []((is_some(trade) /\ Held.state \in {"Executed", "Cancelled"})
            => ~ENABLED Transition)

\* the states in which update has not been called with success
BeforeReview == {"Draft", "PendingApproval"}

\* the states from Approved onwards
FromApproved == {"Approved", "SentToCounterparty", "Executed", "Cancelled"}

(* C31: update succeeds at most once in the life of a trade: it succeeds   *)
(* only on a PendingApproval record, which it takes to NeedsReapproval,    *)
(* and a record that has left Draft and PendingApproval never returns to   *)
(* them nor can update be called on it; and from Approved onwards no step  *)
(* changes any of the eight mutable fields, so the fields in               *)
(* SentToCounterparty, Executed or a later Cancelled are those the trade   *)
(* had when it entered Approved.                                           *)
C31_FieldsFrozenOnceApproved ==
    /\ [][(Called("update") /\ outcome'.ok)
            => /\ Held.state = "PendingApproval"
               /\ unwrap(trade').state = "NeedsReapproval"]_vars
    /\ [][(is_some(trade) /\ Held.state \notin BeforeReview /\ is_some(trade'))
            => unwrap(trade').state \notin BeforeReview]_vars
    /\ []((is_some(trade) /\ Held.state \notin BeforeReview) => ~ENABLED Update)
    /\ [][(is_some(trade) /\ Held.state \in FromApproved /\ is_some(trade'))
            => \A f \in MutableFields :
                    unwrap(trade').mutable_details[f] = Held.mutable_details[f]]_vars

====
